---- MODULE Spec2Model ----
\* A model of src/app.py: the login gate, the AnkiConnect adapter (invoke),
\* the card sort (custom_sort) and the route handlers of the Flask front-end.
\*
\* Conventions
\*   - a Python str that is compared byte-wise (the credentials) is a sequence
\*     of code points; any other text is a TLA+ string;
\*   - a JSON value read from the upstream is a record [json, items]: json is
\*     the JSON type and items the elements of an array (or the one scalar);
\*   - a handler is an operator that yields a "run": what it returned or
\*     raised, the upstream calls it made and the session it leaves behind.
\*     An action serves one whole request: gate, handler, error handler.
EXTENDS Integers, Sequences, FiniteSets, TLC

VARIABLES
    APP_USERNAME,     \* app.py:31, read from the environment at start-up
    APP_PASSWORD,     \* app.py:32
    wraps_unhandled,  \* the installed Flask hands the 500 handler an InternalServerError
                      \* wrapper (Flask >= 1.1) instead of the exception raised (older)
    session,          \* the keys the signed session cookie holds
    request,          \* the request served last
    response,         \* its response
    handler_ran,      \* whether the route's wrapped handler ran for it
    calls,            \* the envelopes POSTed to the upstream while serving it
    wire,             \* SpecInvoke: the action invoked and the upstream's reply
    invoked,          \* SpecInvoke: what invoke gave back for it
    deck,             \* SpecCards: the cards the upstream holds for the deck query
    clock             \* SpecCards: the successive readings of datetime.now()

vars == <<APP_USERNAME, APP_PASSWORD, wraps_unhandled, session, request, response,
          handler_ran, calls, wire, invoked, deck, clock>>

------------------------------------------------------------------------------
\* Bounds of the model

\* the most cards the upstream returns for a deck query
MaxCards == 2
\* due timestamps range over 1..MaxDue, clock readings over 1..MaxDue+1
MaxDue == 2

------------------------------------------------------------------------------
\* Python strings that hmac.compare_digest sees, as code points

EmptyStr == << >>
Str_a == <<97>>
Str_b == <<98>>
Str_e_acute == <<233>>

\* str.isascii(): every code point is below 128
IsAscii(s) == \A i \in 1..Len(s) : s[i] < 128

\* hmac.compare_digest(a, b) on two str: a TypeError unless both are ASCII,
\* otherwise whether they are equal (in constant time)
compare_digest(a, b) ==
    IF IsAscii(a) /\ IsAscii(b)
    THEN [raised |-> FALSE, value |-> (a = b)]
    ELSE [raised |-> TRUE, value |-> FALSE]

\* dict.get(key, default), also request.form.get and card.get
dict_get(d, key, default) == IF key \in DOMAIN d THEN d[key] ELSE default

------------------------------------------------------------------------------
\* JSON values

JNull == [json |-> "null", items |-> << >>]
JArray(s) == [json |-> "array", items |-> s]
JString(s) == [json |-> "string", items |-> <<s>>]
JNumber(n) == [json |-> "number", items |-> <<n>>]
JFalse == [json |-> "false", items |-> << >>]
JTrue == [json |-> "true", items |-> << >>]

\* bool(v): None, "", 0, False and [] are falsy
Truthy(v) ==
    CASE v.json = "null" -> FALSE
      [] v.json = "false" -> FALSE
      [] v.json = "true" -> TRUE
      [] v.json = "string" -> v.items[1] # ""
      [] v.json = "number" -> v.items[1] # 0
      [] OTHER -> v.items # << >>

\* str(v) for the values that end up in a message or an f-string
py_str(v) ==
    CASE v.json = "null" -> "None"
      [] v.json = "false" -> "False"
      [] v.json = "true" -> "True"
      [] v.json = "string" -> v.items[1]
      [] v.json = "number" -> ToString(v.items[1])
      [] OTHER -> "[...]"

------------------------------------------------------------------------------
\* Exceptions

Exc(type, msg) == [type |-> type, msg |-> msg]
NoExc == Exc("", "")

------------------------------------------------------------------------------
\* The AnkiConnect adapter

request_anki(action, params) == [action |-> action, params |-> params, version |-> 6]

\* A reply of the upstream to one POST: no reply at all (URLError), a read that
\* times out (socket.timeout, which urlopen does not wrap), or a JSON object
\* with some of the keys "error" and "result".
Unreachable == [kind |-> "urlerror", body |-> << >>]
TimedOut == [kind |-> "timeout", body |-> << >>]
JsonReply(body) == [kind |-> "json", body |-> body]

Returned(sent, v) == [sent |-> sent, ok |-> TRUE, value |-> v, exc |-> NoExc]
Raised(sent, type, msg) == [sent |-> sent, ok |-> FALSE, value |-> JNull, exc |-> Exc(type, msg)]

\* invoke(action, **params), given the upstream's reply to its POST
invoke_error_first(action, params, reply) ==
    LET sent == request_anki(action, params) IN
    IF reply.kind = "urlerror"
    THEN Raised(sent, "RuntimeError", "AnkiConnect unreachable: <urlopen error>")
    ELSE IF reply.kind = "timeout"
    THEN Raised(sent, "TimeoutError", "timed out")
    ELSE IF "error" \in DOMAIN reply.body /\ Truthy(reply.body["error"])
    THEN Raised(sent, "RuntimeError", py_str(reply.body["error"]))
    ELSE IF "error" \notin DOMAIN reply.body \/ "result" \notin DOMAIN reply.body
    THEN Raised(sent, "RuntimeError", "Invalid response from AnkiConnect")
    ELSE Returned(sent, reply.body["result"])

invoke(action, params, reply) ==
    LET sent == request_anki(action, params) IN
    IF reply.kind = "urlerror"
    THEN Raised(sent, "RuntimeError", "AnkiConnect unreachable: <urlopen error>")
    ELSE IF reply.kind = "timeout"
    THEN Raised(sent, "TimeoutError", "timed out")
    ELSE IF "error" \notin DOMAIN reply.body \/ "result" \notin DOMAIN reply.body
    THEN Raised(sent, "RuntimeError", "Invalid response from AnkiConnect")
    ELSE IF Truthy(reply.body["error"])
    THEN Raised(sent, "RuntimeError", py_str(reply.body["error"]))
    ELSE Returned(sent, reply.body["result"])

------------------------------------------------------------------------------
\* Responses

Resp(status, mimetype, location, body) ==
    [status |-> status, mimetype |-> mimetype, location |-> location, body |-> body]

NoResp == Resp(0, "", "", JNull)

redirect(location) == Resp(302, "text/html", location, JNull)
jsonify(v) == Resp(200, "application/json", "", v)
send_from_directory(directory, name) ==
    Resp(200, "text/html", "", JString(directory \o "/" \o name))

\* the JSON object {"error": msg}
JErrorObject(msg) == [json |-> "object", items |-> <<"error", msg>>]

\* @app.errorhandler(401)
unauthorized == Resp(401, "text/html", "", JString("Unauthorized"))

\* @app.errorhandler(500)
internal_error(e) == Resp(500, "application/json", "", JErrorObject(e.msg))

\* werkzeug's InternalServerError, whose str() is "<code> <name>: <description>"
InternalServerError ==
    Exc("InternalServerError",
        "500 Internal Server Error: The server encountered an internal error and was unable to complete your request. Either the server is overloaded or there is an error in the application.")

\* werkzeug's BadRequestKeyError, raised by request.args[key] on a missing key
BadRequest == Resp(400, "text/html", "", JString("Bad Request"))

------------------------------------------------------------------------------
\* Runs of a view function

Return(resp, made, sess) ==
    [kind |-> "return", ran |-> TRUE, resp |-> resp, exc |-> NoExc, code |-> 0,
     calls |-> made, session |-> sess]
Raise(exc, made, sess) ==
    [kind |-> "raise", ran |-> TRUE, resp |-> NoResp, exc |-> exc, code |-> 0,
     calls |-> made, session |-> sess]
Abort(code, made, sess) ==
    [kind |-> "abort", ran |-> TRUE, resp |-> NoResp, exc |-> NoExc, code |-> code,
     calls |-> made, session |-> sess]

\* login_required(f): the decorated view, given the run f would make
login_required_open(sess, run) == run

login_required(sess, run) ==
    IF "logged_in" \notin sess
    THEN [Return(redirect("/login"), << >>, sess) EXCEPT !.ran = FALSE]
    ELSE run

------------------------------------------------------------------------------
\* The card sort

\* custom_sort(card), with the reading datetime.now().timestamp() gives inside it
custom_sort_bucket_only(card, now) ==
    IF dict_get(card, "reps", 0) >= 1 /\ card["due"] < now
    THEN <<0, 0>>
    ELSE <<1, 0>>

custom_sort(card, now) ==
    IF dict_get(card, "reps", 0) >= 1 /\ card["due"] < now
    THEN <<0, card["due"]>>
    ELSE <<1, card["due"]>>

\* Python's < on two (int, int) tuples
TupleLess(k1, k2) == k1[1] < k2[1] \/ (k1[1] = k2[1] /\ k1[2] < k2[2])

\* the keys list.sort(key=custom_sort) computes first, one call per element in
\* list order; the i-th call makes the i-th reading of the clock
SortKeys(cards, now) == [i \in 1..Len(cards) |-> custom_sort(cards[i], now[i])]

\* one element put into a sorted run behind every element that is not greater
RECURSIVE InsertStable(_, _)
InsertStable(e, run) ==
    IF run = << >> THEN <<e>>
    ELSE IF TupleLess(e.key, run[1].key) THEN <<e>> \o run
    ELSE <<run[1]>> \o InsertStable(e, Tail(run))

RECURSIVE SortDecorated(_, _)
SortDecorated(decorated, n) ==
    IF n = 0 THEN << >>
    ELSE InsertStable(decorated[n], SortDecorated(decorated, n - 1))

\* cards after cards.sort(key=custom_sort): a stable ascending sort on the keys
list_sort(cards, now) ==
    LET keys == SortKeys(cards, now)
        decorated == [i \in 1..Len(cards) |-> [key |-> keys[i], card |-> cards[i]]]
        sorted == SortDecorated(decorated, Len(cards))
    IN [i \in 1..Len(cards) |-> sorted[i].card]

\* [c["cardId"] for c in cards]
CardIds(cards) == [i \in 1..Len(cards) |-> cards[i]["cardId"]]

------------------------------------------------------------------------------
\* The media inliner
\* An HTML fragment is a sequence of tokens: a run of text, or one <img ...>
\* tag that the pattern matches, with its src.

TextToken(t) == [tag |-> "text", src |-> t]
ImgToken(src) == [tag |-> "img", src |-> src]

InlineOk(fragment, made) == [ok |-> TRUE, value |-> fragment, exc |-> NoExc, calls |-> made]
InlineRaised(exc, made) == [ok |-> FALSE, value |-> << >>, exc |-> exc, calls |-> made]

\* re.sub(img_tag_pattern, img_to_base64, answer): the matches from left to
\* right, one retrieveMediaFile call each; replies are the upstream's replies
\* to these calls, in order
RECURSIVE replace_img_with_base64(_, _)
replace_img_with_base64(fragment, replies) ==
    IF fragment = << >> THEN InlineOk(<< >>, << >>)
    ELSE IF fragment[1].tag # "img"
    THEN LET rest == replace_img_with_base64(Tail(fragment), replies)
         IN IF rest.ok THEN InlineOk(<<fragment[1]>> \o rest.value, rest.calls) ELSE rest
    ELSE LET data == invoke("retrieveMediaFile", [filename |-> fragment[1].src], replies[1])
         IN IF ~data.ok THEN InlineRaised(data.exc, <<data>>)
            ELSE LET rest == replace_img_with_base64(Tail(fragment), Tail(replies))
                     img == ImgToken("data:image/jpeg;base64," \o py_str(data.value))
                 IN IF rest.ok
                    THEN InlineOk(<<img>> \o rest.value, <<data>> \o rest.calls)
                    ELSE InlineRaised(rest.exc, <<data>> \o rest.calls)

------------------------------------------------------------------------------
\* The view functions. replies are the upstream's replies to the successive
\* invoke calls of the request; now are the successive readings of the clock.

\* login(): cfg is the configured pair <<APP_USERNAME, APP_PASSWORD>>
login_clears_first(method, form, cfg, sess) ==
    IF method = "POST"
    THEN LET user_ok == compare_digest(dict_get(form, "username", EmptyStr), cfg[1])
             pass_ok == compare_digest(dict_get(form, "password", EmptyStr), cfg[2])
         IN IF user_ok.raised \/ pass_ok.raised
            THEN Raise(Exc("TypeError",
                           "comparing strings with non-ASCII characters is not supported"),
                       << >>, {})
            ELSE IF user_ok.value /\ pass_ok.value
            THEN Return(redirect("/"), << >>, {"logged_in"})
            ELSE Abort(401, << >>, {})
    ELSE Return(Resp(200, "text/html", "", JString("<form method=post>")), << >>, sess)

login(method, form, cfg, sess) ==
    IF method = "POST"
    THEN LET user_ok == compare_digest(dict_get(form, "username", EmptyStr), cfg[1])
             pass_ok == compare_digest(dict_get(form, "password", EmptyStr), cfg[2])
         IN IF user_ok.raised \/ pass_ok.raised
            THEN Raise(Exc("TypeError",
                           "comparing strings with non-ASCII characters is not supported"),
                       << >>, sess)
            ELSE IF user_ok.value /\ pass_ok.value
            THEN \* session.clear(), then session["logged_in"] = True
                 Return(redirect("/"), << >>, {"logged_in"})
            ELSE Abort(401, << >>, sess)
    ELSE Return(Resp(200, "text/html", "", JString("<form method=post>")), << >>, sess)

\* index()
index(sess) == Return(redirect("/decks"), << >>, sess)

\* get_deck_names()
get_deck_names(replies, sess) ==
    LET names == invoke("deckNames", << >>, replies[1])
    IN IF ~names.ok THEN Raise(names.exc, <<names>>, sess)
       ELSE Return(jsonify(names.value), <<names>>, sess)

\* the findCards query of get_cards and get_next_card
DeckQuery(query) == "deck:" \o query \o " and (is:new or is:due)"

\* get_cards()
get_cards(args, replies, now, sess) ==
    LET query == dict_get(args, "query", "")
        rs == invoke("findCards", [query |-> DeckQuery(query)], replies[1])
        cards == invoke("cardsInfo", [cards |-> rs.value], replies[2])
    IN IF ~rs.ok THEN Raise(rs.exc, <<rs>>, sess)
       ELSE IF ~cards.ok THEN Raise(cards.exc, <<rs, cards>>, sess)
       ELSE IF cards.value.json # "array"
       THEN Raise(Exc("AttributeError", "object has no attribute 'sort'"), <<rs, cards>>, sess)
       ELSE Return(jsonify(JArray(CardIds(list_sort(cards.value.items, now)))),
                   <<rs, cards>>, sess)

\* get_next_card()
get_next_card_unsorted(args, replies, now, sess) ==
    LET query == dict_get(args, "query", "")
        rs == invoke("findCards", [query |-> DeckQuery(query)], replies[1])
        cards == invoke("cardsInfo", [cards |-> rs.value], replies[2])
    IN IF ~rs.ok THEN Raise(rs.exc, <<rs>>, sess)
       ELSE IF ~cards.ok THEN Raise(cards.exc, <<rs, cards>>, sess)
       ELSE IF cards.value.json # "array"
       THEN Raise(Exc("AttributeError", "object has no attribute 'sort'"), <<rs, cards>>, sess)
       ELSE IF cards.value.items = << >>
       THEN Raise(Exc("IndexError", "list index out of range"), <<rs, cards>>, sess)
       ELSE Return(jsonify(JNumber(cards.value.items[1]["cardId"])), <<rs, cards>>, sess)

get_next_card(args, replies, now, sess) ==
    LET query == dict_get(args, "query", "")
        rs == invoke("findCards", [query |-> DeckQuery(query)], replies[1])
        cards == invoke("cardsInfo", [cards |-> rs.value], replies[2])
    IN IF ~rs.ok THEN Raise(rs.exc, <<rs>>, sess)
       ELSE IF ~cards.ok THEN Raise(cards.exc, <<rs, cards>>, sess)
       ELSE IF cards.value.json # "array"
       THEN Raise(Exc("AttributeError", "object has no attribute 'sort'"), <<rs, cards>>, sess)
       ELSE IF cards.value.items = << >>
       THEN Raise(Exc("IndexError", "list index out of range"), <<rs, cards>>, sess)
       ELSE Return(jsonify(JNumber(list_sort(cards.value.items, now)[1]["cardId"])),
                   <<rs, cards>>, sess)

\* get_card_content()
get_card_content(args, replies, sess) ==
    IF "card" \notin DOMAIN args THEN Abort(400, << >>, sess)
    ELSE
    LET rs == invoke("cardsInfo", [cards |-> <<args["card"]>>], replies[1])
    IN IF ~rs.ok THEN Raise(rs.exc, <<rs>>, sess)
       ELSE IF rs.value.json # "array"
       THEN Raise(Exc("TypeError", "object is not subscriptable"), <<rs>>, sess)
       ELSE IF rs.value.items = << >>
       THEN Raise(Exc("IndexError", "list index out of range"), <<rs>>, sess)
       ELSE
       LET card == rs.value.items[1]
           question == replace_img_with_base64(card["question"], Tail(replies))
           used == Len(question.calls)
           answer == replace_img_with_base64(card["answer"], SubSeq(replies, used + 2, Len(replies)))
       IN IF ~question.ok THEN Raise(question.exc, <<rs>> \o question.calls, sess)
          ELSE IF ~answer.ok
          THEN Raise(answer.exc, <<rs>> \o question.calls \o answer.calls, sess)
          ELSE Return(jsonify(JArray([rs.value.items EXCEPT
                                         ![1] = [card EXCEPT !["question"] = question.value,
                                                             !["answer"] = answer.value]])),
                      <<rs>> \o question.calls \o answer.calls, sess)

\* answer_card()
answer_card(args, replies, sess) ==
    IF "card" \notin DOMAIN args \/ "ease" \notin DOMAIN args THEN Abort(400, << >>, sess)
    ELSE
    LET done == invoke("answerCards",
                       [answers |-> <<[cardId |-> args["card"], ease |-> args["ease"]]>>],
                       replies[1])
    IN IF ~done.ok THEN Raise(done.exc, <<done>>, sess)
       ELSE Return(jsonify(done.value), <<done>>, sess)

\* send_decks()
send_decks(replies, sess) ==
    LET synced == invoke("sync", << >>, replies[1])
    IN IF ~synced.ok THEN Raise(synced.exc, <<synced>>, sess)
       ELSE Return(send_from_directory("static", "selectDeck.html"), <<synced>>, sess)

\* send_card()
send_card(sess) == Return(send_from_directory("static", "showCard.html"), << >>, sess)

------------------------------------------------------------------------------
\* Flask's dispatch of a run to a response: a returned response as it is,
\* abort(code) through the handler registered for the code (werkzeug's own
\* page when there is none), any other exception through the 500 handler,
\* which gets the exception itself or, when wraps_unhandled, the wrapper.
finalize_request(run, wraps) ==
    CASE run.kind = "return" -> run.resp
      [] run.kind = "abort" -> (IF run.code = 401 THEN unauthorized ELSE BadRequest)
      [] OTHER -> internal_error(IF wraps THEN InternalServerError ELSE run.exc)

------------------------------------------------------------------------------
\* The server

ProtectedRoutes ==
    {"/", "/getDeckNames", "/getCards", "/getNextCard", "/getCardContent",
     "/answerCard", "/decks", "/revise"}

Req(route, method, form, args) ==
    [route |-> route, method |-> method, form |-> form, args |-> args]

NoForm == [k \in {} |-> EmptyStr]
NoArgs == [k \in {} |-> ""]

\* one request served from start to end: the run of the (gated) view function,
\* Flask's dispatch of it, and the session cookie the response carries
Serve(req, run) ==
    /\ request' = req
    /\ response' = finalize_request(run, wraps_unhandled)
    /\ handler_ran' = run.ran
    /\ calls' = run.calls
    /\ session' = run.session
    /\ UNCHANGED <<APP_USERNAME, APP_PASSWORD, wraps_unhandled, wire, invoked, deck, clock>>

\* what a client may submit
Strings == {EmptyStr, Str_a, Str_b, Str_e_acute}
Forms == UNION {[fields -> Strings] : fields \in SUBSET {"username", "password"}}

\* the replies of the upstream to one call whose proper result is good
Healthy(good) == JsonReply("error" :> JNull @@ "result" :> good)
UpstreamError(msg) == JsonReply("error" :> JString(msg) @@ "result" :> JNull)
SomeReplies(good) ==
    {Unreachable, TimedOut, JsonReply("error" :> JNull), JsonReply("result" :> good),
     UpstreamError("bad query"), Healthy(good)}

\* cards as cardsInfo returns them
Card(id, reps, due) == [cardId |-> id, reps |-> reps, due |-> due]
NewCard(id, due) == [cardId |-> id, due |-> due]
SomeDecks == {<< >>, <<Card(1, 0, 1), Card(2, 1, 1)>>}
SomeClock(cards) == [i \in 1..Len(cards) |-> i + 1]

ContentCard(id, question, answer) ==
    [cardId |-> id, question |-> question, answer |-> answer]
SomeContents ==
    {ContentCard(1, <<TextToken("2+2?")>>, <<TextToken("4")>>),
     ContentCard(1, <<TextToken("<p>"), ImgToken("q.png"), TextToken("</p>")>>,
                    <<TextToken("4")>>),
     ContentCard(1, <<ImgToken("q.png")>>, <<TextToken("see "), ImgToken("a.jpg")>>)}
SomeMediaReplies == {Unreachable, UpstreamError("file not found"), Healthy(JString("ZZZ"))}

LoginGet ==
    Serve(Req("/login", "GET", NoForm, NoArgs),
          login("GET", NoForm, <<APP_USERNAME, APP_PASSWORD>>, session))

LoginPost ==
    \E form \in Forms :
        Serve(Req("/login", "POST", form, NoArgs),
              login("POST", form, <<APP_USERNAME, APP_PASSWORD>>, session))

Index ==
    Serve(Req("/", "GET", NoForm, NoArgs), login_required(session, index(session)))

GetDeckNames ==
    \E r \in SomeReplies(JArray(<<"Default">>)) :
        Serve(Req("/getDeckNames", "GET", NoForm, NoArgs),
              login_required(session, get_deck_names(<<r>>, session)))

QueryArgs == {NoArgs, [query |-> "Default"]}

GetCards ==
    \E args \in QueryArgs, cards \in SomeDecks :
      \E r1 \in SomeReplies(JArray(CardIds(cards))),
         r2 \in SomeReplies(JArray(cards)) \cup {Healthy(JNull)} :
        Serve(Req("/getCards", "GET", NoForm, args),
              login_required(session,
                             get_cards(args, <<r1, r2>>, SomeClock(cards), session)))

GetNextCard ==
    \E args \in QueryArgs, cards \in SomeDecks :
      \E r1 \in SomeReplies(JArray(CardIds(cards))),
         r2 \in SomeReplies(JArray(cards)) \cup {Healthy(JNull)} :
        Serve(Req("/getNextCard", "GET", NoForm, args),
              login_required(session,
                             get_next_card(args, <<r1, r2>>, SomeClock(cards), session)))

GetCardContent ==
    \E args \in {NoArgs, [card |-> "1"]}, card \in SomeContents :
      \E r1 \in SomeReplies(JArray(<<card>>)) \cup {Healthy(JArray(<< >>))},
         m1 \in SomeMediaReplies, m2 \in SomeMediaReplies :
        Serve(Req("/getCardContent", "GET", NoForm, args),
              login_required(session, get_card_content(args, <<r1, m1, m2>>, session)))

AnswerCard ==
    \E args \in {NoArgs, [card |-> "1"], [card |-> "1", ease |-> "3"]} :
      \E r \in SomeReplies(JArray(<<TRUE>>)) :
        Serve(Req("/answerCard", "GET", NoForm, args),
              login_required(session, answer_card(args, <<r>>, session)))

SendDecks ==
    \E r \in SomeReplies(JNull) :
        Serve(Req("/decks", "GET", NoForm, NoArgs),
              login_required(session, send_decks(<<r>>, session)))

SendCard ==
    Serve(Req("/revise", "GET", NoForm, NoArgs),
          login_required(session, send_card(session)))

NoRequest == Req("", "", NoForm, NoArgs)
NoWire == << >>

\* the process right after start-up: the configuration read, no request served
Init ==
    /\ APP_USERNAME \in {Str_a}
    /\ APP_PASSWORD \in {Str_b, Str_e_acute}
    /\ wraps_unhandled \in BOOLEAN
    /\ session = {}
    /\ request = NoRequest
    /\ response = NoResp
    /\ handler_ran = FALSE
    /\ calls = << >>
    /\ wire = NoWire
    /\ invoked = << >>
    /\ deck = << >>
    /\ clock = << >>

Next ==
    \/ LoginGet
    \/ LoginPost
    \/ Index
    \/ GetDeckNames
    \/ GetCards
    \/ GetNextCard
    \/ GetCardContent
    \/ AnswerCard
    \/ SendDecks
    \/ SendCard

Spec == Init /\ [][Next]_vars

------------------------------------------------------------------------------
\* The adapter alone: one invoke call on each reply the upstream can send

AnkiActions ==
    {"deckNames", "findCards", "cardsInfo", "retrieveMediaFile", "answerCards", "sync"}
ErrorValues ==
    {JNull, JString("bad query"), JString(""), JNumber(0), JNumber(1), JFalse, JTrue}
ResultValues == {JNull, JArray(<< >>), JArray(<<1, 2, 3>>)}
Bodies ==
    {[k \in {} |-> JNull]}
        \cup {"error" :> e : e \in ErrorValues}
        \cup {"result" :> r : r \in ResultValues}
        \cup {"error" :> e @@ "result" :> r : e \in ErrorValues, r \in ResultValues}
AllReplies == {Unreachable, TimedOut} \cup {JsonReply(b) : b \in Bodies}

InitInvoke ==
    /\ APP_USERNAME = Str_a
    /\ APP_PASSWORD = Str_b
    /\ wraps_unhandled \in BOOLEAN
    /\ session = {}
    /\ request = NoRequest
    /\ response = NoResp
    /\ handler_ran = FALSE
    /\ calls = << >>
    /\ wire \in {<<[action |-> a, reply |-> r]>> : a \in AnkiActions, r \in AllReplies}
    /\ invoked = << >>
    /\ deck = << >>
    /\ clock = << >>

Invoke ==
    /\ invoked = << >>
    /\ invoked' = <<invoke(wire[1].action, << >>, wire[1].reply)>>
    /\ UNCHANGED <<APP_USERNAME, APP_PASSWORD, wraps_unhandled, session, request,
                   response, handler_ran, calls, wire, deck, clock>>

NextInvoke == Invoke

SpecInvoke == InitInvoke /\ [][NextInvoke]_vars

------------------------------------------------------------------------------
\* The card routes on every deck and clock within the bounds, for a client
\* that has just logged in and an upstream that answers every call properly

RepsValues == {-1, 0, 1, 2}
CardShapes == [reps : RepsValues, due : 1..MaxDue]

\* a card without the reps key stands for reps < 0 in a shape
ShapedCard(id, shape) ==
    IF shape.reps < 0 THEN NewCard(id, shape.due) ELSE Card(id, shape.reps, shape.due)

Decks ==
    UNION {{[i \in 1..n |-> ShapedCard(i, shapes[i])] : shapes \in [1..n -> CardShapes]} :
           n \in 0..MaxCards}

\* the readings of a clock that does not run backwards
ClockRuns(n) ==
    {run \in [1..n -> 1..(MaxDue + 1)] : \A i \in 1..n : \A j \in i..n : run[i] <= run[j]}

HealthyReplies(cards) == <<Healthy(JArray(CardIds(cards))), Healthy(JArray(cards))>>

ConfiguredForm == [username |-> Str_a, password |-> Str_b]

InitCards ==
    /\ APP_USERNAME = Str_a
    /\ APP_PASSWORD = Str_b
    /\ wraps_unhandled \in BOOLEAN
    /\ session = {"logged_in"}
    /\ request = Req("/login", "POST", ConfiguredForm, NoArgs)
    /\ response = redirect("/")
    /\ handler_ran = TRUE
    /\ calls = << >>
    /\ wire = NoWire
    /\ invoked = << >>
    /\ deck \in Decks
    /\ clock \in ClockRuns(Len(deck))

DeckGetCards ==
    Serve(Req("/getCards", "GET", NoForm, [query |-> "Default"]),
          login_required(session,
                         get_cards([query |-> "Default"], HealthyReplies(deck), clock, session)))

DeckGetNextCard ==
    Serve(Req("/getNextCard", "GET", NoForm, [query |-> "Default"]),
          login_required(session,
                         get_next_card([query |-> "Default"], HealthyReplies(deck), clock,
                                       session)))

NextCards == DeckGetCards \/ DeckGetNextCard

SpecCards == InitCards /\ [][NextCards]_vars

------------------------------------------------------------------------------
\* Properties

LoggedIn(sess) == "logged_in" \in sess
IsLoginPost(req) == req.route = "/login" /\ req.method = "POST"
RedirectsToLogin(resp) == resp.status = 302 /\ resp.location = "/login"

\* the pair a form submits, as login() reads it
SubmittedPair(form) ==
    <<dict_get(form, "username", EmptyStr), dict_get(form, "password", EmptyStr)>>
SubmitsConfigured(form) == SubmittedPair(form) = <<APP_USERNAME, APP_PASSWORD>>

\* C1: a protected route requested while the session lacks logged_in answers
\* with a redirect to /login, its wrapped handler does not run and no call to
\* the upstream is made for the request.
GateClosedRedirects ==
    [][(request'.route \in ProtectedRoutes /\ ~LoggedIn(session))
          => (RedirectsToLogin(response') /\ ~handler_ran' /\ Len(calls') = 0)]_vars

GateClosedSeen ==
    /\ request.route = "/getCardContent"
    /\ ~LoggedIn(session)
    /\ RedirectsToLogin(response)
    /\ ~handler_ran
    /\ Len(calls) = 0

\* C2: a POST /login whose credential pair is not the configured pair answers
\* 401 and does not set the session's logged_in flag.
WrongCredentialsAnswer401 ==
    [][(IsLoginPost(request') /\ ~SubmitsConfigured(request'.form))
          => (response'.status = 401 /\ (LoggedIn(session') => LoggedIn(session)))]_vars

\* C3: a POST /login with the configured pair sets logged_in, and from then on
\* every request of the session to a protected route passes the gate, whatever
\* requests come in between.
ConfiguredLoginOpensGate ==
    [][/\ (IsLoginPost(request') /\ SubmitsConfigured(request'.form)) => LoggedIn(session')
       /\ LoggedIn(session) => LoggedIn(session')
       /\ (LoggedIn(session) /\ request'.route \in ProtectedRoutes)
             => (~RedirectsToLogin(response') /\ handler_ran')]_vars

\* C4, as claimed: after any POST /login the session holds nothing from before
\* the attempt; after one with wrong credentials it holds no logged_in flag.
LoginAttemptClearsSession ==
    [][IsLoginPost(request')
          => IF SubmitsConfigured(request'.form)
             THEN session' \subseteq {"logged_in"}
             ELSE session' = {}]_vars

\* C4, amended: a POST /login answered with the redirect to the index leaves
\* the session holding exactly logged_in; a POST /login answered otherwise
\* leaves the session as it was.
OnlySuccessfulLoginResetsSession ==
    [][IsLoginPost(request')
          => IF response'.status = 302 /\ response'.location = "/"
             THEN session' = {"logged_in"}
             ELSE session' = session]_vars

FailedAttemptKeptSession ==
    /\ IsLoginPost(request)
    /\ ~SubmitsConfigured(request.form)
    /\ response.status = 401
    /\ LoggedIn(session)

\* the reply invoke read, once it has been called on it
InvokedOnJson == Len(invoked) = 1 /\ wire[1].reply.kind = "json"
HasBothFields(body) == "error" \in DOMAIN body /\ "result" \in DOMAIN body

\* C5: on a reply with both fields, invoke fails carrying the error message
\* whenever the error field is not null, and returns the result field
\* unchanged only when it is null.
NonNullErrorFails ==
    (InvokedOnJson /\ HasBothFields(wire[1].reply.body))
        => LET body == wire[1].reply.body
               out == invoked[1]
           IN IF body["error"].json # "null"
              THEN ~out.ok /\ out.exc.msg = py_str(body["error"])
              ELSE out.ok /\ out.value = body["result"]

\* C6: on a reply that lacks the error field or the result field, invoke fails
\* with "Invalid response from AnkiConnect" and returns no value, whatever the
\* field that is present holds.
MissingFieldIsInvalidResponse ==
    (InvokedOnJson /\ ~HasBothFields(wire[1].reply.body))
        => /\ ~invoked[1].ok
           /\ invoked[1].exc = Exc("RuntimeError", "Invalid response from AnkiConnect")
           /\ invoked[1].value = JNull

ErrorWithoutResultSeen ==
    /\ InvokedOnJson
    /\ DOMAIN wire[1].reply.body = {"error"}
    /\ wire[1].reply.body["error"] = JString("bad query")
    /\ invoked[1].exc.msg = "Invalid response from AnkiConnect"

\* a card is overdue at t: reviewed at least once and due before t
Overdue(card, t) == dict_get(card, "reps", 0) >= 1 /\ card["due"] < t

\* the cards of the deck in the order of the ids a response lists
Listed(ids) == [i \in 1..Len(ids) |-> deck[ids[i]]]

\* the place of card id in a list of ids
Place(ids, id) == CHOOSE i \in 1..Len(ids) : ids[i] = id

ServedCards == request.route = "/getCards" /\ response.status = 200

\* C7: in the list /getCards returns, every overdue card comes before every
\* other card, and each of the two groups is in ascending order of due;
\* overdue is taken at any one instant t the clock can show.
OverdueFirstThenByDue ==
    ServedCards
        => \E t \in 1..(MaxDue + 1) :
              LET cards == Listed(response.body.items)
              IN \A i \in 1..Len(cards) : \A j \in (i + 1)..Len(cards) :
                    /\ Overdue(cards[j], t) => Overdue(cards[i], t)
                    /\ (Overdue(cards[i], t) = Overdue(cards[j], t))
                          => cards[i]["due"] <= cards[j]["due"]

\* C8, as claimed: of any two distinct cards exactly one sorts before the
\* other under the keys custom_sort gives them.
CustomSortIsTotalOrder ==
    ServedCards
        => LET keys == SortKeys(deck, clock)
           IN \A i \in 1..Len(deck) : \A j \in 1..Len(deck) :
                 i # j => (TupleLess(keys[i], keys[j]) # TupleLess(keys[j], keys[i]))

\* C8, amended: of any two distinct cards at most one sorts before the other,
\* and exactly one does unless the two have the same bucket and the same due
\* timestamp; such cards are tied, and /getCards lists the smaller key first
\* and tied cards in the upstream's order.
CustomSortIsTotalPreorder ==
    ServedCards
        => LET keys == SortKeys(deck, clock)
               ids == response.body.items
           IN \A i \in 1..Len(deck) : \A j \in (i + 1)..Len(deck) :
                 LET tied == /\ deck[i]["due"] = deck[j]["due"]
                             /\ Overdue(deck[i], clock[i]) = Overdue(deck[j], clock[j])
                 IN /\ ~(TupleLess(keys[i], keys[j]) /\ TupleLess(keys[j], keys[i]))
                    /\ (TupleLess(keys[i], keys[j]) \/ TupleLess(keys[j], keys[i])) <=> ~tied
                    /\ TupleLess(keys[j], keys[i]) <=> Place(ids, j) < Place(ids, i)

TiedCardsSeen ==
    /\ ServedCards
    /\ Len(deck) = 2
    /\ deck[1]["due"] = deck[2]["due"]
    /\ Overdue(deck[1], clock[1]) /\ Overdue(deck[2], clock[2])
    /\ response.body.items = <<1, 2>>

\* C9: /getNextCard makes the calls /getCards makes and answers with the first
\* id of the list /getCards answers with on the same deck and clock; on a deck
\* without cards it answers with an error, never with a 200.
NextCardIsFirstOfCards ==
    request.route = "/getNextCard"
        => LET listing == login_required(session,
                               get_cards(request.args, HealthyReplies(deck), clock, session))
               page == finalize_request(listing, wraps_unhandled)
           IN /\ calls = listing.calls
              /\ IF deck = << >>
                 THEN response.status = 500
                 ELSE /\ page.status = 200
                      /\ response.status = 200
                      /\ response.body = JNumber(page.body.items[1])

NextCardAfterReorderSeen ==
    /\ request.route = "/getNextCard"
    /\ Len(deck) = 2
    /\ response.status = 200
    /\ response.body = JNumber(2)

\* C10: when a call of the adapter fails while a protected route is handled
\* for a logged-in session, the response is the 500 of internal_error, whose
\* JSON body carries the message of the failure.
AdapterFailureIs500WithMessage ==
    (request.route \in ProtectedRoutes /\ handler_ran
        /\ \E i \in 1..Len(calls) : ~calls[i].ok)
        => /\ response.status = 500
           /\ response.mimetype = "application/json"
           /\ response.body = JErrorObject(calls[Len(calls)].exc.msg)

====
